---------------------------- MODULE Spec2Model ----------------------------
(***************************************************************************)
(* Model of bel (Rust port): extraction of TypeScript declarations from    *)
(* a parsed Rust file (src/extract.rs), their rendering (src/generator.rs) *)
(* and the facade composing both (src/lib.rs).                             *)
(*                                                                         *)
(* Text is modelled by TLA+ strings; TLC evaluates Len, \o, SubSeq, Head   *)
(* and Tail on them, so names, type texts and the rendered output are the  *)
(* real character strings the code builds.  The syntax tree delivered by   *)
(* syn::parse_file is modelled by records (the parser itself is external). *)
(***************************************************************************)
EXTENDS Integers, Sequences, FiniteSets, TLC

VARIABLES extractor, call, ret, out, stages

vars == <<extractor, call, ret, out, stages>>

(***************************************************************************)
(* Bounds of the model.                                                    *)
(***************************************************************************)
MaxNameLen == 4
MaxDepth == 3
MaxItems == 2
MaxFields == 2
MaxParams == 2
MaxVariants == 2
MaxWrites == 3
MaxCalls == 2

(***************************************************************************)
(* Option<T> and Result<T, E>.                                             *)
(***************************************************************************)
None == [tag |-> "None"]
Some(v) == [tag |-> "Some", val |-> v]
Ok(v) == [tag |-> "Ok", val |-> v]
Err(e) == [tag |-> "Err", err |-> e]

(***************************************************************************)
(* Characters and strings.                                                 *)
(***************************************************************************)
CharAt(s, i) == SubSeq(s, i, i)

\* The ASCII characters used in identifiers, in increasing byte order.
AsciiTable == "0123456789ABCDEFGHIJKLMNOPQRSTUVWXYZ_abcdefghijklmnopqrstuvwxyz"

\* Position of a character in byte order (0 for a character not in the table).
ByteRank(c) ==
    IF \E i \in 1..Len(AsciiTable) : CharAt(AsciiTable, i) = c
    THEN CHOOSE i \in 1..Len(AsciiTable) : CharAt(AsciiTable, i) = c
    ELSE 0

\* char::to_uppercase().next().unwrap_or(c) on the ASCII range.
ToUpper(c) ==
    LET r == ByteRank(c)
    IN IF r >= 38 /\ r <= 63 THEN CharAt(AsciiTable, r - 27) ELSE c

\* str::cmp: byte-wise lexicographic order; TRUE iff a < b.
RECURSIVE StrLess(_, _)
StrLess(a, b) ==
    IF Len(b) = 0 THEN FALSE
    ELSE IF Len(a) = 0 THEN TRUE
    ELSE IF Head(a) = Head(b) THEN StrLess(Tail(a), Tail(b))
    ELSE ByteRank(Head(a)) < ByteRank(Head(b))

StrLeq(a, b) == a = b \/ StrLess(a, b)

\* str::contains.
Contains(s, pat) ==
    \E i \in 1..(Len(s) - Len(pat) + 1) : SubSeq(s, i, i + Len(pat) - 1) = pat

StartsWith(s, pat) == Len(s) >= Len(pat) /\ SubSeq(s, 1, Len(pat)) = pat

EndsWith(s, pat) ==
    Len(s) >= Len(pat) /\ SubSeq(s, Len(s) - Len(pat) + 1, Len(s)) = pat

\* str::split(sep): the sequence of the separator-delimited segments.
RECURSIVE Split(_, _)
Split(s, sep) ==
    IF \E i \in 1..Len(s) : CharAt(s, i) = sep
    THEN LET i == CHOOSE j \in 1..Len(s) :
                     /\ CharAt(s, j) = sep
                     /\ \A k \in 1..(j - 1) : CharAt(s, k) # sep
         IN <<SubSeq(s, 1, i - 1)>> \o Split(SubSeq(s, i + 1, Len(s)), sep)
    ELSE <<s>>

\* str::trim on spaces.
RECURSIVE Trim(_)
Trim(s) ==
    IF Len(s) = 0 THEN s
    ELSE IF Head(s) = " " THEN Trim(Tail(s))
    ELSE IF CharAt(s, Len(s)) = " " THEN Trim(SubSeq(s, 1, Len(s) - 1))
    ELSE s

\* Concatenation of a sequence of strings.
RECURSIVE Concat(_)
Concat(ss) == IF Len(ss) = 0 THEN "" ELSE Head(ss) \o Concat(Tail(ss))

\* [T]::join(sep).
RECURSIVE Join(_, _)
Join(ss, sep) ==
    IF Len(ss) = 0 THEN ""
    ELSE IF Len(ss) = 1 THEN ss[1]
    ELSE ss[1] \o sep \o Join(Tail(ss), sep)

(***************************************************************************)
(* Extractor::convert_field_name.                                          *)
(***************************************************************************)
RECURSIVE PushParts_NoUpper(_, _)
PushParts_NoUpper(result, parts) ==
    IF Len(parts) = 0 THEN result
    ELSE PushParts_NoUpper(result \o Head(parts), Tail(parts))

RECURSIVE PushParts(_, _)
PushParts(result, parts) ==
    IF Len(parts) = 0 THEN result
    ELSE LET part == Head(parts)
         IN IF Len(part) # 0
            THEN PushParts(result \o ToUpper(Head(part)) \o Tail(part), Tail(parts))
            ELSE PushParts(result, Tail(parts))

convert_field_name(name) ==
    LET parts == Split(name, "_")
    IN IF Len(parts) = 1 THEN name
       ELSE PushParts(parts[1], Tail(parts))


(***************************************************************************)
(* syn::Type, as far as convert_type and is_optional_field look at it.     *)
(*   Type::Path      [k |-> "Path", segments |-> <<PathSegment, ...>>]     *)
(*   any other shape [k |-> "Tuple"], [k |-> "Reference"], ...             *)
(*   PathSegment     [ident, arguments]                                    *)
(*   PathArguments   [k |-> "None"], [k |-> "AngleBracketed", args],       *)
(*                   [k |-> "Parenthesized"]                               *)
(*   GenericArgument [k |-> "Type", ty], [k |-> "Lifetime", ty]            *)
(***************************************************************************)
NoArguments == [k |-> "None", args |-> <<>>]
AngleBracketed(args) == [k |-> "AngleBracketed", args |-> args]
Parenthesized == [k |-> "Parenthesized", args |-> <<>>]
Segment(ident, arguments) == [ident |-> ident, arguments |-> arguments]
TypePath(segments) == [k |-> "Path", segments |-> segments]
TypeOther(kind) == [k |-> kind, segments |-> <<>>]
TypeArg(t) == [k |-> "Type", ty |-> t]
LifetimeArg == [k |-> "Lifetime", ty |-> TypeOther("Never")]

\* A path of one segment: `Name` or `Name<args>`.
Named(ident) == TypePath(<<Segment(ident, NoArguments)>>)
Generic(ident, args) == TypePath(<<Segment(ident, AngleBracketed(args))>>)
Wrap(ident, t) == Generic(ident, <<TypeArg(t)>>)

\* path.segments.last(), for a path that has segments.
LastSegment(ty) == ty.segments[Len(ty.segments)]

\* syn::PathArguments::is_empty.
ArgumentsIsEmpty(arguments) ==
    CASE arguments.k = "None" -> TRUE
      [] arguments.k = "AngleBracketed" -> Len(arguments.args) = 0
      [] OTHER -> FALSE

(***************************************************************************)
(* Extractor::rust_to_typescript_type.                                     *)
(***************************************************************************)
rust_to_typescript_type(rust_type) ==
    CASE rust_type \in {"String", "str"} -> "string"
      [] rust_type \in {"i8", "i16", "i32", "i64", "u8", "u16", "u32", "u64",
                        "f32", "f64", "isize", "usize"} -> "number"
      [] rust_type = "bool" -> "boolean"
      [] rust_type = "Vec" -> "Array"
      [] rust_type = "Option" -> ""
      [] OTHER -> rust_type

(***************************************************************************)
(* Extractor::convert_type.  The result is a Result<String, _>; an Err of  *)
(* a nested call is passed on by `?`.                                      *)
(***************************************************************************)
\* format!("{}[]", inner_type)
ArrayOf_Generic(inner_type) == "Array<" \o inner_type \o ">"

ArrayOf(inner_type) == inner_type \o "[]"

RECURSIVE convert_type(_)
convert_type(ty) ==
    IF ty.k = "Path"
    THEN IF Len(ty.segments) > 0
         THEN LET segment == ty.segments[Len(ty.segments)]
                  type_name == segment.ident
                  args == segment.arguments.args
                  fallthrough == Ok(rust_to_typescript_type(type_name))
              IN IF /\ ~ArgumentsIsEmpty(segment.arguments)
                    /\ segment.arguments.k = "AngleBracketed"
                 THEN IF type_name = "Option" /\ Len(args) = 1
                      THEN IF args[1].k = "Type"
                           THEN LET inner_type == convert_type(args[1].ty)
                                IN IF inner_type.tag = "Err" THEN inner_type
                                   ELSE Ok(inner_type.val)
                           ELSE fallthrough
                      ELSE IF type_name = "Vec" /\ Len(args) = 1
                      THEN IF args[1].k = "Type"
                           THEN LET inner_type == convert_type(args[1].ty)
                                IN IF inner_type.tag = "Err" THEN inner_type
                                   ELSE Ok(ArrayOf(inner_type.val))
                           ELSE fallthrough
                      ELSE fallthrough
                 ELSE fallthrough
         ELSE Ok("any")
    ELSE Ok("any")


(***************************************************************************)
(* The parsed file (syn::File), as far as the extractor looks at it.       *)
(*   source     [malformed, items]: the text either fails to parse or      *)
(*              parses to the sequence of its items                        *)
(*   attribute  [path, name_value_str, text]: text is the string literal   *)
(*              of `#[path = "text"]` (a `///` line is `#[doc = "..."]`)   *)
(*              when name_value_str, else the tokens inside `#[path(...)]` *)
(*   struct     [kind |-> "Struct", ident, attrs, fields]                  *)
(*   field      [ident |-> None or Some(name), ty, attrs]                  *)
(*   enum       [kind |-> "Enum", ident, attrs, variants]                  *)
(*   variant    [ident, discriminant |-> None or Some(expr)]               *)
(*   trait      [kind |-> "Trait", ident, attrs, items]                    *)
(*   trait item [kind |-> "Fn", ident, attrs, inputs, output] or           *)
(*              [kind |-> "Const", ...]                                    *)
(*   fn arg     [kind |-> "Receiver" or "Typed", pat, ty]                  *)
(*   other item [kind |-> "Other", ident]                                  *)
(***************************************************************************)
DocAttr(text) == [path |-> "doc", name_value_str |-> TRUE, text |-> text]
ListAttr(path, tokens) == [path |-> path, name_value_str |-> FALSE, text |-> tokens]

\* syn::parse_file: the external parser.
parse_file(source) == IF source.malformed THEN Err("syn::Error") ELSE Ok(source.items)

(***************************************************************************)
(* Extractor::extract_doc.                                                 *)
(***************************************************************************)
RECURSIVE extract_doc(_)
extract_doc(attrs) ==
    IF Len(attrs) = 0 THEN None
    ELSE IF Head(attrs).path = "doc" /\ Head(attrs).name_value_str
    THEN Some(Trim(Head(attrs).text))
    ELSE extract_doc(Tail(attrs))

(***************************************************************************)
(* Extractor::is_optional_field.                                           *)
(***************************************************************************)
is_optional_field_OptionOnly(field) ==
    /\ field.ty.k = "Path"
    /\ Len(field.ty.segments) > 0
    /\ field.ty.segments[Len(field.ty.segments)].ident = "Option"

is_optional_field(field) ==
    \/ /\ field.ty.k = "Path"
       /\ Len(field.ty.segments) > 0
       /\ field.ty.segments[Len(field.ty.segments)].ident = "Option"
    \/ \E i \in 1..Len(field.attrs) :
           /\ field.attrs[i].path = "serde"
           /\ Contains(field.attrs[i].text, "skip_serializing_if")

(***************************************************************************)
(* The HashMap<String, TypescriptType>: a function on its set of keys; it  *)
(* keeps no order among them.                                              *)
(***************************************************************************)
EmptyMap == <<>>

MapInsert_KeepFirst(map, key, value) ==
    [k \in DOMAIN map \cup {key} |-> IF k \in DOMAIN map THEN map[k] ELSE value]

MapInsert(map, key, value) ==
    [k \in DOMAIN map \cup {key} |-> IF k = key THEN value ELSE map[k]]

(***************************************************************************)
(* Extractor::extract_struct.  Each extract_* operator takes the           *)
(* extractor's result map and returns [status, result]: the Result<(), _>  *)
(* of the method and the map it leaves in self.result.                     *)
(***************************************************************************)
\* fields.push(TypescriptField {..}) for a named field: ts_type is what
\* `self.convert_type(&field.ty)?` gave, rest what the later fields give.
PushField(field, ts_type, rest) ==
    IF ts_type.tag = "Err" THEN ts_type
    ELSE IF rest.tag = "Err" THEN rest
    ELSE Ok(<<[name |-> convert_field_name(field.ident.val),
               ts_type |-> ts_type.val,
               optional |-> is_optional_field(field),
               doc |-> extract_doc(field.attrs)]>>
            \o rest.val)

\* The loop over item.fields; a field without a name is passed over.
RECURSIVE StructFields(_)
StructFields(fields) ==
    IF Len(fields) = 0 THEN Ok(<<>>)
    ELSE IF Head(fields).ident.tag = "Some"
    THEN PushField(Head(fields), convert_type(Head(fields).ty),
                   StructFields(Tail(fields)))
    ELSE StructFields(Tail(fields))

\* self.result.insert(name, TypescriptType::Interface {..}), reached when
\* the loop over the fields returned no error.
InsertInterface(result, item, fields) ==
    IF fields.tag = "Err" THEN [status |-> fields, result |-> result]
    ELSE [status |-> Ok("()"),
          result |-> MapInsert(result, item.ident,
                               [kind |-> "Interface",
                                name |-> item.ident,
                                fields |-> fields.val,
                                doc |-> extract_doc(item.attrs)])]

extract_struct(result, item) ==
    InsertInterface(result, item, StructFields(item.fields))

(***************************************************************************)
(* Extractor::extract_enum: the variant names only.                        *)
(***************************************************************************)
extract_enum(result, item) ==
    [status |-> Ok("()"),
     result |-> MapInsert(result, item.ident,
                          [kind |-> "Enum",
                           name |-> item.ident,
                           variants |-> [i \in 1..Len(item.variants) |->
                                            item.variants[i].ident],
                           doc |-> extract_doc(item.attrs)])]

(***************************************************************************)
(* Extractor::extract_trait.                                               *)
(***************************************************************************)
\* format!("arg{}", i)
ParamName(i) == "arg" \o ToString(i)

\* The loop over method.sig.inputs.iter().enumerate(), from index i on.
\* params.push(TypescriptField {..}) for the typed input of index i.
PushParam(i, param_type, rest) ==
    IF param_type.tag = "Err" THEN param_type
    ELSE IF rest.tag = "Err" THEN rest
    ELSE Ok(<<[name |-> ParamName(i), ts_type |-> param_type.val]>> \o rest.val)

\* The loop over method.sig.inputs.iter().enumerate(), from index i on.
RECURSIVE MethodParams(_, _)
MethodParams(inputs, i) ==
    IF Len(inputs) = 0 THEN Ok(<<>>)
    ELSE IF Head(inputs).kind = "Typed"
    THEN PushParam(i, convert_type(Head(inputs).ty),
                   MethodParams(Tail(inputs), i + 1))
    ELSE MethodParams(Tail(inputs), i + 1)

\* match &method.sig.output: the converted type, or void.
ReturnType(output) ==
    IF output.tag = "Some" THEN convert_type(output.val) ELSE Ok("void")

\* methods.push(TypescriptMethod {..}).
PushMethod(method, params, return_type, rest) ==
    IF params.tag = "Err" THEN params
    ELSE IF return_type.tag = "Err" THEN return_type
    ELSE IF rest.tag = "Err" THEN rest
    ELSE Ok(<<[name |-> method.ident,
               params |-> params.val,
               return_type |-> return_type.val,
               doc |-> extract_doc(method.attrs)]>>
            \o rest.val)

\* The loop over item.items; a member that is no function is passed over.
RECURSIVE TraitMethods(_)
TraitMethods(items) ==
    IF Len(items) = 0 THEN Ok(<<>>)
    ELSE IF Head(items).kind = "Fn"
    THEN PushMethod(Head(items), MethodParams(Head(items).inputs, 0),
                    ReturnType(Head(items).output), TraitMethods(Tail(items)))
    ELSE TraitMethods(Tail(items))

\* self.result.insert(name, TypescriptType::Trait {..}).
InsertTrait(result, item, methods) ==
    IF methods.tag = "Err" THEN [status |-> methods, result |-> result]
    ELSE [status |-> Ok("()"),
          result |-> MapInsert(result, item.ident,
                               [kind |-> "Trait",
                                name |-> item.ident,
                                methods |-> methods.val,
                                doc |-> extract_doc(item.attrs)])]

extract_trait(result, item) ==
    InsertTrait(result, item, TraitMethods(item.items))

(***************************************************************************)
(* Extractor::extract on an extractor whose map is `result`: returns       *)
(* [ret, result], the value returned and the map left in self.result.      *)
(***************************************************************************)
\* match item: the extract_* method of the item's kind, none for the rest.
ExtractItem(result, item) ==
    CASE item.kind = "Struct" -> extract_struct(result, item)
      [] item.kind = "Enum" -> extract_enum(result, item)
      [] item.kind = "Trait" -> extract_trait(result, item)
      [] OTHER -> [status |-> Ok("()"), result |-> result]

\* The loop over syntax_tree.items: `?` after an item's method ends the
\* loop at its first error (step is what the method of the item before
\* `items` gave).
RECURSIVE ExtractItems(_, _)
ExtractItems(step, items) ==
    IF step.status.tag = "Err" \/ Len(items) = 0 THEN step
    ELSE ExtractItems(ExtractItem(step.result, Head(items)), Tail(items))

\* Ok(self.result.clone()) after the loop, or the loop's error.
Returned(done) ==
    IF done.status.tag = "Err"
    THEN [ret |-> done.status, result |-> done.result]
    ELSE [ret |-> Ok(done.result), result |-> done.result]

Extractor_extract(result, source) ==
    IF parse_file(source).tag = "Err"
    THEN [ret |-> parse_file(source), result |-> result]
    ELSE Returned(ExtractItems([status |-> Ok("()"), result |-> result],
                               parse_file(source).val))

\* Extractor::new.
Extractor_new(options) == [live |-> TRUE, options |-> options, result |-> EmptyMap]

\* extract::extract: a new Extractor, used for this one call.
extract(source, options) == Extractor_extract(Extractor_new(options).result, source).ret

(***************************************************************************)
(* The generator.  Each operator returns the sequence of the texts its     *)
(* write!/writeln! calls hand to the writer, one element per call, in the  *)
(* order of the calls.                                                     *)
(*   options  [namespace, preamble, generate_enums_as_sum_types,           *)
(*             sort_alphabetically]                                        *)
(***************************************************************************)
DefaultPreamble == "// generated using bel\n// DO NOT MODIFY"

\* slice::sort / sort_by on the key Key(_): a stable sort, ascending in
\* str::cmp.
EmptySinkValue == [written |-> <<>>, attempts |-> 0]

RECURSIVE InsertSorted(_, _, _)
InsertSorted(sorted, x, keys) ==
    IF Len(sorted) = 0 THEN <<x>>
    ELSE IF StrLess(keys[x], keys[sorted[Len(sorted)]])
    THEN Append(InsertSorted(SubSeq(sorted, 1, Len(sorted) - 1), x, keys),
                sorted[Len(sorted)])
    ELSE Append(sorted, x)

\* The indices of keys, stably sorted by their key.
RECURSIVE SortedIndices(_, _)
SortedIndices(keys, n) ==
    IF n = 0 THEN <<>>
    ELSE InsertSorted(SortedIndices(keys, n - 1), n, keys)

\* seq stably sorted by keys, keys[i] being the key of seq[i].
StableSort(seq, keys) ==
    [i \in 1..Len(seq) |-> seq[SortedIndices(keys, Len(seq))[i]]]

\* The names that sort_by(|a, b| a.name.cmp(&b.name)) compares.
Names(members) == [i \in 1..Len(members) |-> members[i].name]

\* Generator::write_doc.
write_doc(doc) ==
    IF doc.tag = "Some"
    THEN <<"/**\n", " * " \o doc.val \o "\n", " */\n">>
    ELSE <<>>

\* Generator::generate_field.
generate_field(field) ==
    write_doc(field.doc)
    \o <<"    " \o field.name \o (IF field.optional THEN "?" ELSE "") \o ": "
         \o field.ts_type \o "\n">>

\* Generator::generate_method.
generate_method(method) ==
    LET params == [i \in 1..Len(method.params) |->
                      method.params[i].name \o ": " \o method.params[i].ts_type]
    IN write_doc(method.doc)
       \o <<"    " \o method.name \o "(" \o Join(params, ", ") \o "): "
            \o method.return_type \o "\n">>

\* Generator::generate_enum.
generate_enum_OneBased(name, variants) ==
    <<"export enum " \o name \o " {\n">>
    \o [i \in 1..Len(variants) |->
           "    " \o variants[i] \o " = " \o ToString(i) \o ",\n"]
    \o <<"}\n">>

generate_enum(name, variants) ==
    <<"export enum " \o name \o " {\n">>
    \o [i \in 1..Len(variants) |->
           "    " \o variants[i] \o " = " \o ToString(i - 1) \o ",\n"]
    \o <<"}\n">>

\* Generator::generate_sum_type_enum.
RECURSIVE SumTypeVariants(_, _)
SumTypeVariants(variants, i) ==
    IF Len(variants) = 0 THEN <<>>
    ELSE (IF i = 0
          THEN <<"\n", "    \"" \o Head(variants) \o "\"">>
          ELSE <<" |\n", "    \"" \o Head(variants) \o "\"">>)
         \o SumTypeVariants(Tail(variants), i + 1)

generate_sum_type_enum(name, variants) ==
    <<"export type " \o name \o " =">> \o SumTypeVariants(variants, 0) \o <<";\n">>

\* Concatenation of a sequence of sequences.
RECURSIVE Flatten(_)
Flatten(seqs) == IF Len(seqs) = 0 THEN <<>> ELSE Head(seqs) \o Flatten(Tail(seqs))

\* for field in field_names { self.generate_field(writer, field)?; }
GenerateFields(fields) ==
    Flatten([i \in 1..Len(fields) |-> generate_field(fields[i])])

\* for method in method_names { self.generate_method(writer, method)?; }
GenerateMethods(methods) ==
    Flatten([i \in 1..Len(methods) |-> generate_method(methods[i])])

\* The members in the order generate_type emits them.
MemberOrder(members, options) ==
    IF options.sort_alphabetically THEN StableSort(members, Names(members)) ELSE members

\* Generator::generate_type.
generate_type(ts_type, options) ==
    CASE ts_type.kind = "Interface" ->
             write_doc(ts_type.doc)
             \o <<"export interface " \o ts_type.name \o " {\n">>
             \o GenerateFields(MemberOrder(ts_type.fields, options))
             \o <<"}\n">>
      [] ts_type.kind = "Enum" ->
             write_doc(ts_type.doc)
             \o (IF options.generate_enums_as_sum_types
                 THEN generate_sum_type_enum(ts_type.name, ts_type.variants)
                 ELSE generate_enum(ts_type.name, ts_type.variants))
      [] ts_type.kind = "Trait" ->
             write_doc(ts_type.doc)
             \o <<"export interface " \o ts_type.name \o " {\n">>
             \o GenerateMethods(MemberOrder(ts_type.methods, options))
             \o <<"}\n">>

\* The orders in which HashMap::keys() may yield the keys of a map: the
\* iteration order of a HashMap is unspecified and differs between maps of
\* equal content (RandomState), so every order is possible.
KeyOrders(types) ==
    {order \in [1..Cardinality(DOMAIN types) -> DOMAIN types] :
        \A i, j \in DOMAIN order : i # j => order[i] # order[j]}

\* The orders in which the keys of the mapping that extract returned may be
\* iterated (one empty order when it returned an error).
ResultKeyOrders(types) == IF types.tag = "Ok" THEN KeyOrders(types.val) ELSE {<<>>}

\* type_names in Generator::generate, keys being what types.keys() yielded.
TypeNames_Unsorted(keys, options) == keys

TypeNames(keys, options) ==
    IF options.sort_alphabetically THEN StableSort(keys, keys) ELSE keys

RECURSIVE GenerateTypes(_, _, _)
GenerateTypes(types, type_names, options) ==
    IF Len(type_names) = 0 THEN <<>>
    ELSE generate_type(types[Head(type_names)], options) \o <<"\n">>
         \o GenerateTypes(types, Tail(type_names), options)

\* Generator::generate: all the writes it makes when none of them fails.
GenerateWrites_NoClose(types, keys, options) ==
    (IF options.preamble.tag = "Some" THEN <<options.preamble.val \o "\n">> ELSE <<>>)
    \o (IF options.namespace.tag = "Some"
        THEN <<"export namespace " \o options.namespace.val \o " {\n">>
        ELSE <<>>)
    \o GenerateTypes(types, TypeNames(keys, options), options)

GenerateWrites(types, keys, options) ==
    (IF options.preamble.tag = "Some" THEN <<options.preamble.val \o "\n">> ELSE <<>>)
    \o (IF options.namespace.tag = "Some"
        THEN <<"export namespace " \o options.namespace.val \o " {\n">>
        ELSE <<>>)
    \o GenerateTypes(types, TypeNames(keys, options), options)
    \o (IF options.namespace.tag = "Some" THEN <<" }\n">> ELSE <<>>)

(***************************************************************************)
(* The writer.  A sink accepts `capacity` writes and rejects the next one  *)
(* (Unbounded: it accepts every write, as a Vec<u8> does).  Every write of *)
(* the generator is followed by `?`, so the first rejected write ends the  *)
(* call with Err and nothing is attempted after it.                        *)
(***************************************************************************)
Unbounded == -1

WriteAll_Continue(writes, capacity) ==
    IF capacity = Unbounded \/ Len(writes) <= capacity
    THEN [status |-> Ok("()"),
          sink |-> [written |-> writes, attempts |-> Len(writes)]]
    ELSE [status |-> Err("io::Error"),
          sink |-> [written |-> SubSeq(writes, 1, capacity), attempts |-> Len(writes)]]

WriteAll(writes, capacity) ==
    IF capacity = Unbounded \/ Len(writes) <= capacity
    THEN [status |-> Ok("()"),
          sink |-> [written |-> writes, attempts |-> Len(writes)]]
    ELSE [status |-> Err("io::Error"),
          sink |-> [written |-> SubSeq(writes, 1, capacity), attempts |-> capacity + 1]]

\* generator::generate / Generator::generate on a sink of the given capacity.
generate(types, keys, options, capacity) ==
    WriteAll(GenerateWrites(types, keys, options), capacity)

(***************************************************************************)
(* extract_and_generate (the facade): [ret, stages, sink], the value       *)
(* returned, the stages called in order, and the local output buffer.      *)
(***************************************************************************)
extract_and_generate_Lenient(source, extract_options, generator_options, keys) ==
    LET types == extract(source, extract_options)
        g == generate(IF types.tag = "Err" THEN EmptyMap ELSE types.val,
                      keys, generator_options, Unbounded)
    IN [ret |-> Ok(Concat(g.sink.written)),
        stages |-> <<"extract", "generate", "from_utf8">>,
        sink |-> g.sink]

\* `generate(&types, generator_options, &mut output)?` and
\* Ok(String::from_utf8(output)?), g being what generate gave.
FromUtf8(g) ==
    IF g.status.tag = "Err"
    THEN [ret |-> g.status, stages |-> <<"extract", "generate">>, sink |-> g.sink]
    ELSE [ret |-> Ok(Concat(g.sink.written)),
          stages |-> <<"extract", "generate", "from_utf8">>,
          sink |-> g.sink]

\* `let types = extract(source, extract_options)?` and what follows it.
WithTypes(types, generator_options, keys) ==
    IF types.tag = "Err"
    THEN [ret |-> types, stages |-> <<"extract">>, sink |-> EmptySinkValue]
    ELSE FromUtf8(generate(types.val, keys, generator_options, Unbounded))

extract_and_generate(source, extract_options, generator_options, keys) ==
    WithTypes(extract(source, extract_options), generator_options, keys)

(***************************************************************************)
(* enums.rs: the enum value resolver.  A discriminant expression is        *)
(*   [k |-> "LitStr", text]   a string literal and its value               *)
(*   [k |-> "LitInt", text]   an integer literal and its base-10 digits    *)
(*   [k |-> "LitBool", text]  a literal that is neither                    *)
(*   [k |-> "Path", segments] a path expression and its segment names      *)
(*   [k |-> "Binary"], ...    any other expression                         *)
(* An i64 is represented by its decimal numeral without leading zeros      *)
(* (the values at the edge of the i64 range exceed the integers of the     *)
(* model checker), which is also what i64::to_string gives.                *)
(***************************************************************************)
LitStr(value) == [k |-> "LitStr", text |-> value]
LitInt(digits) == [k |-> "LitInt", text |-> digits]
LitBool(token) == [k |-> "LitBool", text |-> token]
ExprPath(segments) == [k |-> "Path", segments |-> segments]
ExprOther(kind) == [k |-> kind, text |-> ""]

\* EnumValue.
EnumString(s) == [variant |-> "String", val |-> s]
EnumNumber(n) == [variant |-> "Number", val |-> n]
EnumIdentifier(i) == [variant |-> "Identifier", val |-> i]

I64Max == "9223372036854775807"

\* The numeral of the value of a string of digits.
RECURSIVE StripZeros(_)
StripZeros(digits) ==
    IF Len(digits) > 1 /\ Head(digits) = "0" THEN StripZeros(Tail(digits))
    ELSE digits

\* a <= b, for numerals without leading zeros.
DecimalLeq(a, b) == Len(a) < Len(b) \/ (Len(a) = Len(b) /\ StrLeq(a, b))

\* LitInt::base10_parse::<i64>: the value, or an error when it exceeds
\* i64::MAX.
base10_parse(digits) ==
    IF DecimalLeq(StripZeros(digits), I64Max) THEN Ok(StripZeros(digits))
    ELSE Err("syn::Error")

\* Ok(Some(EnumValue::Number(value))) after `base10_parse::<i64>()?`.
NumberValue(value) ==
    IF value.tag = "Err" THEN value ELSE Ok(Some(EnumNumber(value.val)))

\* path.get_ident(): the name of a path of exactly one segment.
get_ident(segments) == IF Len(segments) = 1 THEN Some(segments[1]) ELSE None

\* extract_variant_value.
extract_variant_value_NoIdentifier(variant) ==
    IF variant.discriminant.tag = "Some"
    THEN CASE variant.discriminant.val.k = "LitStr" ->
                  Ok(Some(EnumString(variant.discriminant.val.text)))
           [] variant.discriminant.val.k = "LitInt" ->
                  NumberValue(base10_parse(variant.discriminant.val.text))
           [] OTHER -> Ok(None)
    ELSE Ok(None)

extract_variant_value(variant) ==
    IF variant.discriminant.tag = "Some"
    THEN CASE variant.discriminant.val.k = "LitStr" ->
                  Ok(Some(EnumString(variant.discriminant.val.text)))
           [] variant.discriminant.val.k = "LitInt" ->
                  NumberValue(base10_parse(variant.discriminant.val.text))
           [] variant.discriminant.val.k = "LitBool" -> Ok(None)
           [] variant.discriminant.val.k = "Path" ->
                  IF get_ident(variant.discriminant.val.segments).tag = "Some"
                  THEN Ok(Some(EnumIdentifier(
                              get_ident(variant.discriminant.val.segments).val)))
                  ELSE Ok(None)
           [] OTHER -> Ok(None)
    ELSE Ok(None)

\* variants.push((variant_name, value)) after `extract_variant_value(variant)?`.
PushVariant(variant, value, rest) ==
    IF value.tag = "Err" THEN value
    ELSE IF rest.tag = "Err" THEN rest
    ELSE Ok(<<[name |-> variant.ident, value |-> value.val]>> \o rest.val)

\* The loop over item.variants of enums::extract_enum.
RECURSIVE EnumVariants(_)
EnumVariants(variants) ==
    IF Len(variants) = 0 THEN Ok(<<>>)
    ELSE PushVariant(Head(variants), extract_variant_value(Head(variants)),
                     EnumVariants(Tail(variants)))

\* extract_doc of enums.rs.
RECURSIVE enums_extract_doc(_)
enums_extract_doc(attrs) ==
    IF Len(attrs) = 0 THEN None
    ELSE IF Head(attrs).path = "doc" /\ Head(attrs).name_value_str
    THEN Some(Trim(Head(attrs).text))
    ELSE enums_extract_doc(Tail(attrs))

\* Ok(ExtractedEnum {..}) after the loop.
ExtractedEnum(item, variants) ==
    IF variants.tag = "Err" THEN variants
    ELSE Ok([name |-> item.ident, variants |-> variants.val,
             doc |-> enums_extract_doc(item.attrs)])

\* enums::extract_enum.
enums_extract_enum(item) == ExtractedEnum(item, EnumVariants(item.variants))

(***************************************************************************)
(* State.                                                                  *)
(*   extractor  a caller-held Extractor value (its options and result      *)
(*              map), or NoExtractor before Extractor::new                 *)
(*   call       the operation called, with its arguments; done once it has *)
(*              returned                                                   *)
(*   ret        what the call returned                                     *)
(*   out        the sink the call wrote to                                 *)
(*   stages     the stages the facade called, in order                     *)
(***************************************************************************)
NoExtractor == [live |-> FALSE, options |-> None, result |-> <<>>]

\* No call made yet.
Idle ==
    /\ extractor = NoExtractor
    /\ call = [op |-> "none", done |-> TRUE]
    /\ ret = None
    /\ out = EmptySinkValue
    /\ stages = <<>>

(***************************************************************************)
(* Field-name translation on its own: every string over NameAlphabet up to *)
(* MaxNameLen characters, and the name of the documented example.          *)
(***************************************************************************)
NameAlphabet == {"a", "b", "_", "1"}

RECURSIVE StringsUpTo(_)
StringsUpTo(n) ==
    IF n = 0 THEN {""}
    ELSE LET shorter == StringsUpTo(n - 1)
         IN shorter \cup {s \o c : s \in shorter, c \in NameAlphabet}

FieldNameInputs == StringsUpTo(MaxNameLen) \cup {"foo_bar_baz", "Foo_bar"}

ConvertFieldName ==
    \E name \in FieldNameInputs :
        /\ call' = [op |-> "convert_field_name", done |-> TRUE, name |-> name]
        /\ ret' = convert_field_name(name)
        /\ UNCHANGED <<extractor, out, stages>>

NextName == ConvertFieldName

SpecName == Idle /\ [][NextName]_vars

(***************************************************************************)
(* Type resolution on its own: the types of nesting depth up to MaxDepth.  *)
(***************************************************************************)
BaseTypes ==
    {Named(i) : i \in {"String", "u32", "bool", "Foo", "Vec", "Option"}}
    \cup {TypeOther(kind) : kind \in {"Tuple", "Reference", "Ptr", "TraitObject",
                                     "Slice", "Array"}}
    \cup {Generic("HashMap", <<TypeArg(Named("String")), TypeArg(Named("u32"))>>),
          Generic("Option", <<TypeArg(Named("u32")), TypeArg(Named("bool"))>>),
          Generic("Vec", <<TypeArg(Named("u32")), TypeArg(Named("bool"))>>),
          Generic("Vec", <<LifetimeArg>>),
          Generic("Option", <<LifetimeArg>>),
          Generic("Vec", <<>>),
          Generic("Foo", <<TypeArg(Named("u32"))>>),
          TypePath(<<Segment("Fn", Parenthesized)>>),
          TypePath(<<Segment("Vec", Parenthesized)>>)}

RECURSIVE TypesUpTo(_)
TypesUpTo(d) ==
    IF d = 0 THEN BaseTypes
    ELSE LET inner == TypesUpTo(d - 1)
         IN inner
            \cup {Wrap(w, t) : w \in {"Vec", "Option"}, t \in inner}
            \cup {TypePath(<<Segment("std", NoArguments),
                             Segment("Vec", AngleBracketed(<<TypeArg(t)>>))>>) :
                      t \in BaseTypes}

ConvertType ==
    \E ty \in TypesUpTo(MaxDepth) :
        /\ call' = [op |-> "convert_type", done |-> TRUE, ty |-> ty]
        /\ ret' = convert_type(ty)
        /\ UNCHANGED <<extractor, out, stages>>

NextType == ConvertType

SpecType == Idle /\ [][NextType]_vars

(***************************************************************************)
(* The declarations and sources the pipeline is run on.                    *)
(***************************************************************************)
SeqsUpTo(S, n) == UNION {[1..k -> S] : k \in 0..n}

Struct(ident, attrs, fields) ==
    [kind |-> "Struct", ident |-> ident, attrs |-> attrs, fields |-> fields]
NamedField(name, ty, attrs) == [ident |-> Some(name), ty |-> ty, attrs |-> attrs]
TupleField(ty) == [ident |-> None, ty |-> ty, attrs |-> <<>>]
Enum(ident, attrs, variants) ==
    [kind |-> "Enum", ident |-> ident, attrs |-> attrs, variants |-> variants]
Unit(ident) == [ident |-> ident, discriminant |-> None]
WithInt(ident, digits) ==
    [ident |-> ident, discriminant |-> Some([k |-> "LitInt", text |-> digits])]
Trait(ident, attrs, items) ==
    [kind |-> "Trait", ident |-> ident, attrs |-> attrs, items |-> items]
Method(ident, attrs, inputs, output) ==
    [kind |-> "Fn", ident |-> ident, attrs |-> attrs, inputs |-> inputs,
     output |-> output]
ConstItem(ident) ==
    [kind |-> "Const", ident |-> ident, attrs |-> <<>>, inputs |-> <<>>,
     output |-> None]
Receiver == [kind |-> "Receiver", pat |-> "self", ty |-> TypeOther("Reference")]
Typed(pat, ty) == [kind |-> "Typed", pat |-> pat, ty |-> ty]
OtherItem(ident) == [kind |-> "Other", ident |-> ident]
Parsed(items) == [malformed |-> FALSE, items |-> items]
Malformed == [malformed |-> TRUE, items |-> <<>>]

SkipIfAbsent == ListAttr("serde", "skip_serializing_if = \"Vec::is_empty\"")
Rename == ListAttr("serde", "rename = \"t\"")

\* One struct, of up to MaxFields fields.
FieldDecls ==
    {NamedField("foo_bar", Wrap("Option", Named("String")), <<>>),
     NamedField("bar", Named("u32"), <<DocAttr(" The bar ")>>),
     NamedField("baz", Wrap("Vec", Named("u32")), <<SkipIfAbsent>>),
     NamedField("tag", Named("String"), <<Rename>>),
     NamedField("alpha",
                TypePath(<<Segment("option", NoArguments),
                           Segment("Option", AngleBracketed(<<TypeArg(Named("u8"))>>))>>),
                <<>>),
     TupleField(Named("u32"))}

StructDecls == {Struct("Demo", <<>>, fields) : fields \in SeqsUpTo(FieldDecls, MaxFields)}

\* One enum, of up to MaxVariants variants.
VariantDecls ==
    {Unit("Active"), Unit("Inactive"), WithInt("Ok", "200"), WithInt("NotFound", "404"),
     WithInt("Big", "9223372036854775808")}

EnumDecls ==
    {Enum("Status", <<>>, variants) : variants \in SeqsUpTo(VariantDecls, MaxVariants)}

\* One trait of one method, with or without a receiver, of up to MaxParams
\* further parameters, alone or after a member that is no function.
TypedArgs == {Typed("name", Named("String")), Typed("msg", Wrap("Vec", Named("u32")))}

InputLists ==
    {receiver \o typed : receiver \in {<<>>, <<Receiver>>},
                         typed \in SeqsUpTo(TypedArgs, MaxParams)}

MethodDecls ==
    {Method("say_hello", <<>>, inputs, output) :
         inputs \in InputLists, output \in {None, Some(Named("String"))}}

TraitDecls ==
    {Trait("DemoService", <<>>, before \o <<method>>) :
         before \in {<<>>, <<ConstItem("LIMIT")>>}, method \in MethodDecls}

\* Files of up to MaxItems items, among them declarations of one name.
Items ==
    {Struct("Zeta", <<DocAttr(" A demo ")>>,
            <<NamedField("foo_bar", Wrap("Option", Named("String")), <<>>),
              NamedField("bar", Named("u32"), <<>>)>>),
     Struct("Alpha", <<>>,
            <<NamedField("b_c", Named("String"), <<SkipIfAbsent>>),
              NamedField("a", Wrap("Vec", Named("u32")), <<>>)>>),
     Struct("beta", <<>>, <<>>),
     Enum("Alpha", <<>>, <<WithInt("Ok", "200"), WithInt("NotFound", "404")>>),
     Enum("Zeta", <<>>, <<Unit("Active"), Unit("Inactive")>>),
     Trait("Alpha", <<>>,
           <<Method("say_hello", <<>>,
                    <<Receiver, Typed("name", Named("String")),
                      Typed("msg", Named("String"))>>,
                    Some(Named("String"))),
             Method("add", <<DocAttr("Adds")>>, <<Typed("n", Named("u32"))>>, None)>>),
     Trait("beta", <<>>, <<>>),
     OtherItem("main")}

Sources ==
    {Parsed(<<decl>>) : decl \in StructDecls \cup EnumDecls \cup TraitDecls}
    \cup {Parsed(items) : items \in SeqsUpTo(Items, MaxItems)}
    \cup {Malformed}

ExtractOptionsSet ==
    {[embed_structs |-> b, follow_structs |-> b, no_anon_structs |-> b,
      sort_alphabetically |-> b] : b \in BOOLEAN}

GeneratorOptionsSet ==
    [namespace : {None, Some("api")},
     preamble : {None, Some(DefaultPreamble)},
     generate_enums_as_sum_types : BOOLEAN,
     sort_alphabetically : BOOLEAN]

SinkCapacities == {Unbounded} \cup (0..MaxWrites)

(***************************************************************************)
(* The pipeline.  extract::extract, generator::generate and                *)
(* extract_and_generate keep nothing between calls: the initial state      *)
(* draws the arguments of one call of extract or of the facade, and a      *)
(* mapping that extract returned may then be handed to generate.           *)
(***************************************************************************)
Init ==
    /\ extractor = NoExtractor
    /\ call \in [op : {"extract_and_generate"}, done : {FALSE}, source : Sources,
                 extract_options : ExtractOptionsSet,
                 generator_options : GeneratorOptionsSet]
          \cup [op : {"extract"}, done : {FALSE}, source : Sources,
                extract_options : ExtractOptionsSet]
    /\ ret = None
    /\ out = EmptySinkValue
    /\ stages = <<>>

\* extract::extract(source, options).
Extract ==
    /\ call.op = "extract"
    /\ ~call.done
    /\ call' = [call EXCEPT !.done = TRUE]
    /\ ret' = extract(call.source, call.extract_options)
    /\ UNCHANGED <<extractor, out, stages>>

\* generator::generate(&types, options, &mut writer) on the mapping that
\* extract returned.
Generate ==
    /\ call.op = "extract"
    /\ call.done
    /\ ret.tag = "Ok"
    /\ \E options \in GeneratorOptionsSet, capacity \in SinkCapacities,
          keys \in KeyOrders(ret.val) :
           \E g \in {generate(ret.val, keys, options, capacity)} :
              /\ call' = [op |-> "generate", done |-> TRUE, source |-> call.source,
                          types |-> ret.val, generator_options |-> options,
                          capacity |-> capacity]
              /\ ret' = g.status
              /\ out' = g.sink
    /\ UNCHANGED <<extractor, stages>>

\* extract_and_generate(source, extract_options, generator_options).
ExtractAndGenerate ==
    /\ call.op = "extract_and_generate"
    /\ ~call.done
    /\ \E keys \in ResultKeyOrders(extract(call.source, call.extract_options)) :
          \E r \in {extract_and_generate(call.source, call.extract_options,
                                         call.generator_options, keys)} :
              /\ call' = [call EXCEPT !.done = TRUE]
              /\ ret' = r.ret
              /\ out' = r.sink
              /\ stages' = r.stages
    /\ UNCHANGED extractor

Next == Extract \/ Generate \/ ExtractAndGenerate

Spec == Init /\ [][Next]_vars

(***************************************************************************)
(* An Extractor value held by a caller: Extractor::new, then up to         *)
(* MaxCalls calls of Extractor::extract on it (a new Extractor may be made *)
(* at any time).  self.result is written by the extract_* methods and      *)
(* never cleared.  call.earlier lists the sources passed to the earlier    *)
(* calls on the same value.                                                *)
(***************************************************************************)
SessionSources == {Parsed(items) : items \in SeqsUpTo(Items, 1)} \cup {Malformed}

\* The sources passed so far to the Extractor value held.
Passed ==
    IF call.op = "Extractor::extract" THEN Append(call.earlier, call.source) ELSE <<>>

\* Extractor::new(options).
ExtractorNew ==
    /\ \E options \in ExtractOptionsSet :
           extractor' = Extractor_new(options)
    /\ call' = [op |-> "Extractor::new", done |-> TRUE]
    /\ ret' = None
    /\ UNCHANGED <<out, stages>>

\* Extractor::extract(&mut self, source).
ExtractorExtract ==
    /\ extractor.live
    /\ Len(Passed) < MaxCalls
    /\ \E source \in SessionSources :
           \E r \in {Extractor_extract(extractor.result, source)} :
               /\ extractor' = [extractor EXCEPT !.result = r.result]
               /\ ret' = r.ret
               /\ call' = [op |-> "Extractor::extract", done |-> TRUE,
                           source |-> source, earlier |-> Passed]
    /\ UNCHANGED <<out, stages>>

NextSession == ExtractorNew \/ ExtractorExtract

SpecSession == Idle /\ [][NextSession]_vars

(***************************************************************************)
(* The enum value resolver on its own: one enum of up to MaxVariants       *)
(* variants, with discriminants of every shape the resolver tells apart.   *)
(***************************************************************************)
WithExpr(ident, expr) == [ident |-> ident, discriminant |-> Some(expr)]

ResolverVariants ==
    {Unit("Active"),
     WithExpr("Ok", LitInt("200")),
     WithExpr("Seven", LitInt("007")),
     WithExpr("Max", LitInt(I64Max)),
     WithExpr("Big", LitInt("9223372036854775808")),
     WithExpr("Name", LitStr("ok")),
     WithExpr("Flag", LitBool("true")),
     WithExpr("Limit", ExprPath(<<"MAX">>)),
     WithExpr("Far", ExprPath(<<"consts", "MAX">>)),
     WithExpr("Sum", ExprOther("Binary")),
     WithExpr("Made", ExprOther("Call")),
     WithExpr("Part", ExprOther("Field")),
     WithExpr("Minus", ExprOther("Unary"))}

ResolverEnums ==
    {Enum("Status", attrs, variants) :
         attrs \in {<<>>, <<DocAttr(" The status ")>>},
         variants \in SeqsUpTo(ResolverVariants, MaxVariants)}

InitEnum ==
    /\ extractor = NoExtractor
    /\ call \in [op : {"enums::extract_enum"}, done : {FALSE}, item : ResolverEnums]
    /\ ret = None
    /\ out = EmptySinkValue
    /\ stages = <<>>

\* enums::extract_enum(item).
ExtractEnum ==
    /\ call.op = "enums::extract_enum"
    /\ ~call.done
    /\ call' = [call EXCEPT !.done = TRUE]
    /\ ret' = enums_extract_enum(call.item)
    /\ UNCHANGED <<extractor, out, stages>>

NextEnum == ExtractEnum

SpecEnum == InitEnum /\ [][NextEnum]_vars

(***************************************************************************)
(* Reading a source and a rendered output, for the properties below.       *)
(***************************************************************************)
IsDecl(item) == item.kind \in {"Struct", "Enum", "Trait"}

DeclIndices(source) == {i \in 1..Len(source.items) : IsDecl(source.items[i])}

DeclaredNames(source) == {source.items[i].ident : i \in DeclIndices(source)}

\* The last declaration of the name in the file.
LastDecl(source, name) ==
    LET last == CHOOSE i \in DeclIndices(source) :
                    /\ source.items[i].ident = name
                    /\ \A j \in DeclIndices(source) :
                           source.items[j].ident = name => j <= i
    IN source.items[last]

\* The declared names in the order of their first declaration.
RECURSIVE FirstDeclared(_, _)
FirstDeclared(items, seen) ==
    IF Len(items) = 0 THEN <<>>
    ELSE IF IsDecl(Head(items)) /\ Head(items).ident \notin seen
    THEN <<Head(items).ident>>
         \o FirstDeclared(Tail(items), seen \cup {Head(items).ident})
    ELSE FirstDeclared(Tail(items), seen)

\* A complete output: the call rendered, and every write went through.
FacadeOk == call.op = "extract_and_generate" /\ call.done /\ ret.tag = "Ok"
GenerateOk == call.op = "generate" /\ ret.tag = "Ok"
Rendered == FacadeOk \/ GenerateOk

\* The name a write declares, when the write opens a declaration block.
HeaderName(w) ==
    IF StartsWith(w, "export interface ") /\ EndsWith(w, " {\n")
    THEN Some(SubSeq(w, 18, Len(w) - 3))
    ELSE IF StartsWith(w, "export enum ") /\ EndsWith(w, " {\n")
    THEN Some(SubSeq(w, 13, Len(w) - 3))
    ELSE IF StartsWith(w, "export type ") /\ EndsWith(w, " =")
    THEN Some(SubSeq(w, 13, Len(w) - 2))
    ELSE None

IsHeader(w) == HeaderName(w).tag = "Some"

\* The names of the declaration blocks of an output, in output order.
BlockNames(written) ==
    LET headers == SelectSeq(written, IsHeader)
    IN [i \in 1..Len(headers) |-> HeaderName(headers[i]).val]

\* The indices of the writes that open the block of the name.
HeadersOf(written, name) ==
    {i \in 1..Len(written) : HeaderName(written[i]) = Some(name)}

\* The member lines (fields, methods, variants) of the block opened at h:
\* the indented writes up to the write that closes the block.
IsBlockEnd(w) == w \in {"}\n", ";\n"}

BlockEnd(written, h) ==
    CHOOSE e \in (h + 1)..Len(written) :
        /\ IsBlockEnd(written[e])
        /\ \A j \in (h + 1)..(e - 1) : ~IsBlockEnd(written[j])

IsMemberLine(w) == StartsWith(w, "    ")

MemberLines(written, h) ==
    SelectSeq(SubSeq(written, h + 1, BlockEnd(written, h) - 1), IsMemberLine)

\* The block of the name in a complete output.
MembersOf(written, name) ==
    MemberLines(written, CHOOSE h \in HeadersOf(written, name) : TRUE)

(***************************************************************************)
(* C1: the k-th non-receiver parameter of a trait method (k from 0, the    *)
(* receiver not counted) is rendered as "arg" + k, with or without a       *)
(* receiver, and the declared parameter names do not appear.               *)
(***************************************************************************)
TypedInputs(method) ==
    LET IsTyped(input) == input.kind = "Typed"
    IN SelectSeq(method.inputs, IsTyped)

ArgsNumberedAmongTyped(method) ==
    LET typed == TypedInputs(method)
    IN Join([k \in 1..Len(typed) |->
                "arg" \o ToString(k - 1) \o ": " \o convert_type(typed[k].ty).val],
            ", ")

FnItems(trait) ==
    LET IsFn(member) == member.kind = "Fn"
    IN SelectSeq(trait.items, IsFn)

C1_ParamsNumberedFromZero ==
    FacadeOk =>
        \A name \in DeclaredNames(call.source) :
            LET decl == LastDecl(call.source, name)
            IN decl.kind = "Trait" =>
                   \A m \in 1..Len(FnItems(decl)) :
                       LET method == FnItems(decl)[m]
                       IN \E i \in 1..Len(out.written) :
                              /\ StartsWith(out.written[i],
                                            "    " \o method.ident \o "("
                                            \o ArgsNumberedAmongTyped(method) \o "): ")
                              /\ \A k \in 1..Len(TypedInputs(method)) :
                                     ~Contains(out.written[i],
                                               TypedInputs(method)[k].pat \o ": ")

(***************************************************************************)
(* C2: a variant declared with an integer-literal discriminant d is        *)
(* rendered with d: as `Name = d` in enum mode, as the bare literal d      *)
(* (not the quoted name) in union-type mode.                               *)
(***************************************************************************)
C2_DiscriminantRendered ==
    FacadeOk =>
        \A name \in DeclaredNames(call.source) :
            LET decl == LastDecl(call.source, name)
            IN decl.kind = "Enum" =>
                   \A v \in 1..Len(decl.variants) :
                       LET variant == decl.variants[v]
                       IN variant.discriminant.tag = "Some"
                          /\ variant.discriminant.val.k = "LitInt" =>
                              IF call.generator_options.generate_enums_as_sum_types
                              THEN /\ \E i \in 1..Len(out.written) :
                                          out.written[i]
                                              = "    " \o variant.discriminant.val.text
                                   /\ ~Contains(ret.val, "\"" \o variant.ident \o "\"")
                              ELSE Contains(ret.val,
                                            variant.ident \o " = "
                                            \o variant.discriminant.val.text)

(***************************************************************************)
(* C3: with sort_alphabetically off, generate emits the declaration blocks *)
(* in the order in which the names were first inserted into the mapping    *)
(* (the order of declaration in the source), so that the source and the    *)
(* options determine the output.                                           *)
(***************************************************************************)
C3_InsertionOrder ==
    Rendered /\ ~call.generator_options.sort_alphabetically =>
        BlockNames(out.written) = FirstDeclared(call.source.items, {})

(***************************************************************************)
(* C4: when a source declares a name more than once (as struct, enum or    *)
(* trait), the mapping holds for the name the content of its last          *)
(* declaration, the mapping has as many keys as the source declares        *)
(* distinct names, and the output has exactly one block for the name.      *)
(***************************************************************************)
ContentOf(decl, options) == extract(Parsed(<<decl>>), options).val[decl.ident]

MappingIsLastDeclarations(types, source, options) ==
    /\ DOMAIN types = DeclaredNames(source)
    /\ Cardinality(DOMAIN types) = Cardinality(DeclaredNames(source))
    /\ \A name \in DeclaredNames(source) :
           types[name] = ContentOf(LastDecl(source, name), options)

C4_LastDeclarationWins ==
    /\ call.op = "extract" /\ call.done /\ ret.tag = "Ok" =>
           MappingIsLastDeclarations(ret.val, call.source, call.extract_options)
    /\ Rendered =>
           /\ \A name \in DeclaredNames(call.source) :
                  Cardinality(HeadersOf(out.written, name)) = 1
           /\ Len(BlockNames(out.written)) = Cardinality(DeclaredNames(call.source))

C4_Witness ==
    /\ GenerateOk
    /\ Len(call.source.items) = 2
    /\ call.source.items[1].kind = "Struct"
    /\ call.source.items[2].kind = "Enum"
    /\ call.source.items[1].ident = call.source.items[2].ident
    /\ call.types[call.source.items[2].ident].kind = "Enum"
    /\ Cardinality(DOMAIN call.types) = 1
    /\ BlockNames(out.written) = <<call.source.items[2].ident>>

(***************************************************************************)
(* C5: the interface of a struct with N named fields has exactly N field   *)
(* lines, one for each field.  As claimed, a line carries the `?` marker   *)
(* if and only if the type of its field is Option<T>                       *)
(* (C5_OptionalIffOptionType); in the code it carries the marker if and    *)
(* only if the last path segment of the type is named Option or the field  *)
(* has a serde attribute whose text contains skip_serializing_if           *)
(* (C5_FieldLines).                                                        *)
(***************************************************************************)
NamedFields(decl) ==
    LET HasIdent(field) == field.ident.tag = "Some"
    IN SelectSeq(decl.fields, HasIdent)

\* The text of a member line before the first of the characters in stops.
RECURSIVE Before(_, _)
Before(text, stops) ==
    IF Len(text) = 0 \/ Head(text) \in stops THEN ""
    ELSE Head(text) \o Before(Tail(text), stops)

MemberName(line) == Before(SubSeq(line, 5, Len(line)), {"?", ":", "(", " "})

FieldLineOptional(line) ==
    LET name == MemberName(line)
    IN StartsWith(SubSeq(line, 5 + Len(name), Len(line)), "?: ")

TypeIsOption(ty) ==
    ty.k = "Path" /\ Len(ty.segments) > 0 /\ LastSegment(ty).ident = "Option"

HasSkipMarker(field) ==
    \E i \in 1..Len(field.attrs) :
        /\ field.attrs[i].path = "serde"
        /\ Contains(field.attrs[i].text, "skip_serializing_if")

\* The field lines of the block are the lines of the fields, one each, up
\* to their order, with the marker where Marked(field) says so.
FieldLinesMatch(lines, fields, Marked(_)) ==
    /\ Len(lines) = Len(fields)
    /\ \E p \in Permutations(1..Len(fields)) :
           \A i \in 1..Len(fields) :
               /\ MemberName(lines[p[i]]) = convert_field_name(fields[i].ident.val)
               /\ FieldLineOptional(lines[p[i]]) = Marked(fields[i])

StructsRendered(Marked(_)) ==
    FacadeOk =>
        \A name \in DeclaredNames(call.source) :
            LET decl == LastDecl(call.source, name)
            IN decl.kind = "Struct" =>
                   FieldLinesMatch(MembersOf(out.written, name), NamedFields(decl),
                                   Marked)

OptionTyped(field) == TypeIsOption(field.ty)
OptionTypedOrSkipMarked(field) == TypeIsOption(field.ty) \/ HasSkipMarker(field)

C5_OptionalIffOptionType == StructsRendered(OptionTyped)

C5_FieldLines == StructsRendered(OptionTypedOrSkipMarked)

C5_Witness ==
    /\ FacadeOk
    /\ Len(call.source.items) = 1
    /\ call.source.items[1].kind = "Struct"
    /\ Len(NamedFields(call.source.items[1])) = 2
    /\ \E i \in 1..2 : HasSkipMarker(NamedFields(call.source.items[1])[i])
                        /\ ~TypeIsOption(NamedFields(call.source.items[1])[i].ty)
    /\ \E i \in 1..2 : TypeIsOption(NamedFields(call.source.items[1])[i].ty)
    /\ Len(MembersOf(out.written, call.source.items[1].ident)) = 2
    /\ Contains(ret.val, "baz?: number[]\n")
    /\ Contains(ret.val, "fooBar?: string\n")

(***************************************************************************)
(* C6: with sort_alphabetically on, generate emits the declaration blocks  *)
(* in strictly ascending byte order of their names (Alpha before Zeta),    *)
(* the field lines of an interface and the method lines of a trait         *)
(* interface in non-decreasing order of their names, and it emits what it  *)
(* emits with the flag off.                                                *)
(***************************************************************************)
CountIn(seq, x) == Cardinality({i \in 1..Len(seq) : seq[i] = x})

SameBag(a, b) ==
    /\ Len(a) = Len(b)
    /\ \A i \in 1..Len(a) : CountIn(a, a[i]) = CountIn(b, a[i])

RenderedTypes ==
    IF call.op = "generate" THEN call.types
    ELSE extract(call.source, call.extract_options).val

C6_SortedOutput ==
    Rendered /\ call.generator_options.sort_alphabetically =>
        LET names == BlockNames(out.written)
        IN /\ \A i \in 1..(Len(names) - 1) : StrLess(names[i], names[i + 1])
           /\ \A h \in 1..Len(out.written) :
                  StartsWith(out.written[h], "export interface ") =>
                      LET lines == MemberLines(out.written, h)
                      IN \A i \in 1..(Len(lines) - 1) :
                             StrLeq(MemberName(lines[i]), MemberName(lines[i + 1]))
           /\ SameBag(out.written,
                      GenerateWrites(RenderedTypes, names,
                                     [call.generator_options
                                          EXCEPT !.sort_alphabetically = FALSE]))

C6_Witness ==
    /\ Rendered
    /\ call.generator_options.sort_alphabetically
    /\ Len(call.source.items) = 2
    /\ call.source.items[1].ident = "Zeta"
    /\ call.source.items[2].ident = "Alpha"
    /\ call.source.items[2].kind = "Struct"
    /\ BlockNames(out.written) = <<"Alpha", "Zeta">>
    /\ MemberLines(out.written, CHOOSE h \in HeadersOf(out.written, "Alpha") : TRUE)
           = <<"    a: number[]\n", "    bC?: string\n">>

(***************************************************************************)
(* C7: an enum of N variants without explicit discriminants is rendered,   *)
(* in enum mode, as its N variants in declaration order with the values    *)
(* 0, 1, ..., N-1 and, in union-type mode, as its N variant names as       *)
(* double-quoted string literals, once each, in declaration order.         *)
(***************************************************************************)
NoDiscriminants(decl) ==
    \A v \in 1..Len(decl.variants) : decl.variants[v].discriminant.tag = "None"

C7_OrdinalValues ==
    FacadeOk =>
        \A name \in DeclaredNames(call.source) :
            LET decl == LastDecl(call.source, name)
            IN decl.kind = "Enum" /\ NoDiscriminants(decl) =>
                   MembersOf(out.written, name)
                       = IF call.generator_options.generate_enums_as_sum_types
                         THEN [v \in 1..Len(decl.variants) |->
                                  "    \"" \o decl.variants[v].ident \o "\""]
                         ELSE [v \in 1..Len(decl.variants) |->
                                  "    " \o decl.variants[v].ident \o " = "
                                  \o ToString(v - 1) \o ",\n"]

C7_Witness ==
    /\ FacadeOk
    /\ ~call.generator_options.generate_enums_as_sum_types
    /\ call.source = Parsed(<<Enum("Status", <<>>, <<Unit("Active"), Unit("Inactive")>>)>>)
    /\ Contains(ret.val, "    Active = 0,\n    Inactive = 1,\n")

(***************************************************************************)
(* C10: extract_and_generate returns either Ok with the complete text      *)
(* (the preamble, a block for every declaration of the mapping, the        *)
(* namespace closed) or Err without any text.  When extraction fails the   *)
(* renderer is not called and the error of the extraction is returned;     *)
(* no stage runs twice.                                                    *)
(***************************************************************************)
C10_AllOrNothing ==
    call.op = "extract_and_generate" /\ call.done =>
        LET types == extract(call.source, call.extract_options)
            options == call.generator_options
        IN /\ ret.tag \in {"Ok", "Err"}
           /\ ret.tag = "Err" => DOMAIN ret = {"tag", "err"}
           /\ types.tag = "Err" =>
                  /\ ret = types
                  /\ stages = <<"extract">>
                  /\ out.attempts = 0
           /\ ret.tag = "Ok" =>
                  /\ types.tag = "Ok"
                  /\ ret.val = Concat(out.written)
                  /\ out.attempts = Len(out.written)
                  /\ options.preamble.tag = "Some" =>
                         StartsWith(ret.val, options.preamble.val \o "\n")
                  /\ options.namespace.tag = "Some" =>
                         /\ Contains(ret.val,
                                     "export namespace " \o options.namespace.val \o " {\n")
                         /\ EndsWith(ret.val, " }\n")
                  /\ \A name \in DOMAIN types.val :
                         Cardinality(HeadersOf(out.written, name)) = 1
           /\ \A i, j \in 1..Len(stages) : i # j => stages[i] # stages[j]
           /\ Len(stages) > 0 /\ stages[1] = "extract"
           /\ \A i \in 1..Len(stages) : stages[i] = "generate" => i = 2

C10_Witness ==
    /\ call.op = "extract_and_generate"
    /\ call.done
    /\ call.source.malformed
    /\ ret = Err("syn::Error")
    /\ stages = <<"extract">>
    /\ out.written = <<>>

(***************************************************************************)
(* C8: for a type built from a base named type T by nesting                *)
(* single-argument Vec<...> and Option<...> wrappers, convert_type returns *)
(* the resolved text of T followed by one "[]" per Vec layer; the Option   *)
(* layers add nothing.  Vec<String> is string[], Vec<Vec<u32>> is          *)
(* number[][], Option<Vec<Option<bool>>> is boolean[].                     *)
(***************************************************************************)
IsWrapperLayer(ty) ==
    /\ ty.k = "Path"
    /\ Len(ty.segments) > 0
    /\ LastSegment(ty).ident \in {"Vec", "Option"}
    /\ LastSegment(ty).arguments.k = "AngleBracketed"
    /\ Len(LastSegment(ty).arguments.args) = 1
    /\ LastSegment(ty).arguments.args[1].k = "Type"

WrappedType(ty) == LastSegment(ty).arguments.args[1].ty

RECURSIVE WrapperBase(_)
WrapperBase(ty) == IF IsWrapperLayer(ty) THEN WrapperBase(WrappedType(ty)) ELSE ty

RECURSIVE VecLayers(_)
VecLayers(ty) ==
    IF IsWrapperLayer(ty)
    THEN VecLayers(WrappedType(ty)) + (IF LastSegment(ty).ident = "Vec" THEN 1 ELSE 0)
    ELSE 0

RECURSIVE Brackets(_)
Brackets(n) == IF n = 0 THEN "" ELSE "[]" \o Brackets(n - 1)

IsNamedType(ty) == ty.k = "Path" /\ Len(ty.segments) > 0

C8_WrapperNesting ==
    call.op = "convert_type" =>
        /\ IsNamedType(WrapperBase(call.ty)) =>
               ret = Ok(rust_to_typescript_type(LastSegment(WrapperBase(call.ty)).ident)
                        \o Brackets(VecLayers(call.ty)))
        /\ call.ty = Wrap("Vec", Named("String")) => ret = Ok("string[]")
        /\ call.ty = Wrap("Vec", Wrap("Vec", Named("u32"))) => ret = Ok("number[][]")
        /\ call.ty = Wrap("Option", Wrap("Vec", Wrap("Option", Named("bool"))))
               => ret = Ok("boolean[]")

C8_Witness ==
    /\ call.op = "convert_type"
    /\ call.ty = Wrap("Option", Wrap("Vec", Wrap("Option", Named("bool"))))
    /\ ret = Ok("boolean[]")

(***************************************************************************)
(* C9: convert_field_name returns a name without underscore unchanged;     *)
(* its result never contains an underscore, so translating the result      *)
(* again changes nothing; foo_bar_baz becomes fooBarBaz; the result is the *)
(* name with its underscores removed and every character that followed an  *)
(* underscore upper-cased (the first segment is kept as it is, every later *)
(* non-empty segment is capitalised, empty segments are skipped).          *)
(***************************************************************************)
RECURSIVE CamelScan(_, _)
CamelScan(s, afterUnderscore) ==
    IF Len(s) = 0 THEN ""
    ELSE IF Head(s) = "_" THEN CamelScan(Tail(s), TRUE)
    ELSE (IF afterUnderscore THEN ToUpper(Head(s)) ELSE Head(s))
         \o CamelScan(Tail(s), FALSE)

C9_FieldNameTranslation ==
    call.op = "convert_field_name" =>
        /\ ~Contains(call.name, "_") => ret = call.name
        /\ ~Contains(ret, "_")
        /\ convert_field_name(ret) = ret
        /\ call.name = "foo_bar_baz" => ret = "fooBarBaz"
        /\ ret = CamelScan(call.name, FALSE)

C9_Witness ==
    /\ call.op = "convert_field_name"
    /\ call.name = "foo_bar_baz"
    /\ ret = "fooBarBaz"

(***************************************************************************)
(* C11: extracting a source that contains an enum variant whose            *)
(* integer-literal discriminant does not fit a 64-bit signed integer fails *)
(* the whole extraction: extract, and the facade with it, returns an error *)
(* and no mapping.                                                         *)
(***************************************************************************)
ExceedsI64(digits) == ~DecimalLeq(StripZeros(digits), I64Max)

HasOverflowingDiscriminant(source) ==
    /\ ~source.malformed
    /\ \E i \in 1..Len(source.items) :
           /\ source.items[i].kind = "Enum"
           /\ \E j \in 1..Len(source.items[i].variants) :
                  LET d == source.items[i].variants[j].discriminant
                  IN /\ d.tag = "Some"
                     /\ d.val.k = "LitInt"
                     /\ ExceedsI64(d.val.text)

C11_OverflowFailsExtraction ==
    (/\ call.op \in {"extract", "extract_and_generate"}
     /\ call.done
     /\ HasOverflowingDiscriminant(call.source))
        => ret.tag = "Err"

(***************************************************************************)
(* C12: no extraction state survives a call: the mapping returned by a     *)
(* successful Extractor::extract, on a new Extractor or on one used        *)
(* before, has exactly the declarations of the source passed to that call  *)
(* and nothing declared only in a source passed to an earlier call.        *)
(***************************************************************************)
C12_NoStateSurvives ==
    (call.op = "Extractor::extract" /\ ret.tag = "Ok")
        => /\ DOMAIN ret.val = DeclaredNames(call.source)
           /\ \A i \in 1..Len(call.earlier) :
                  \A name \in DeclaredNames(call.earlier[i]) :
                      name \in DOMAIN ret.val => name \in DeclaredNames(call.source)

(***************************************************************************)
(* C13: convert_type never returns an error, and it returns `any` for      *)
(* every type that is not a named path with zero or one generic argument:  *)
(* the types that are no path (tuples, references, raw pointers, trait     *)
(* objects, slices, arrays), and the named paths with two or more generic  *)
(* arguments or with a generic argument that is not a type.                *)
(***************************************************************************)
GenericArgs(ty) == LastSegment(ty).arguments.args

OutsideNamedPath(ty) ==
    \/ ty.k # "Path"
    \/ Len(ty.segments) = 0
    \/ /\ LastSegment(ty).arguments.k = "AngleBracketed"
       /\ \/ Len(GenericArgs(ty)) >= 2
          \/ \E i \in 1..Len(GenericArgs(ty)) : GenericArgs(ty)[i].k # "Type"

C13_AnyFallback ==
    call.op = "convert_type"
        => /\ ret.tag = "Ok"
           /\ OutsideNamedPath(call.ty) => ret.val = "any"

(***************************************************************************)
(* C17: every type text that convert_type produces is a non-empty string,  *)
(* also for the wrapper names used without their single type argument      *)
(* (a bare Option or Vec, Option<A, B>, Vec<'a>).                          *)
(***************************************************************************)
C17_NonEmptyTypeText ==
    (call.op = "convert_type" /\ ret.tag = "Ok") => ret.val # ""

(***************************************************************************)
(* C14: in Generator::generate the first write that the sink rejects ends  *)
(* rendering: no write is attempted after it, generate returns Err, and it *)
(* returns Ok only when no write failed; the writes that happen are the    *)
(* first writes of the complete output, in the order preamble, namespace   *)
(* opening, declaration blocks, namespace closing.                         *)
(***************************************************************************)
IsNamespaceOpening(w) == StartsWith(w, "export namespace ") /\ EndsWith(w, " {\n")
IsNamespaceClosing(w) == w = " }\n"

\* The number of writes that precede the declaration blocks.
PrologueLen(options) ==
    (IF options.preamble.tag = "Some" THEN 1 ELSE 0)
    + (IF options.namespace.tag = "Some" THEN 1 ELSE 0)

PrologueInOrder(written, options) ==
    /\ (options.preamble.tag = "Some" /\ Len(written) >= 1)
           => written[1] = options.preamble.val \o "\n"
    /\ (options.namespace.tag = "Some" /\ Len(written) >= PrologueLen(options))
           => written[PrologueLen(options)]
                  = "export namespace " \o options.namespace.val \o " {\n"
    /\ \A i \in 1..Len(written) :
           /\ IsHeader(written[i]) => i > PrologueLen(options)
           /\ IsNamespaceOpening(written[i]) =>
                  options.namespace.tag = "Some" /\ i = PrologueLen(options)

C14_FirstFailureEnds ==
    call.op = "generate" =>
        /\ out.attempts <= Len(out.written) + 1
        /\ ret.tag = "Err" <=> out.attempts = Len(out.written) + 1
        /\ ret.tag = "Ok" <=> out.attempts = Len(out.written)
        /\ ret.tag = "Err" => Len(out.written) = call.capacity
        /\ \E keys \in KeyOrders(call.types) :
               LET all == GenerateWrites(call.types, keys, call.generator_options)
               IN /\ Len(out.written) <= Len(all)
                  /\ out.written = SubSeq(all, 1, Len(out.written))
                  /\ ret.tag = "Ok" => out.written = all
        /\ PrologueInOrder(out.written, call.generator_options)
        /\ \A i \in 1..Len(out.written) :
               IsNamespaceClosing(out.written[i]) =>
                   /\ i = Len(out.written)
                   /\ ret.tag = "Ok"
                   /\ call.generator_options.namespace.tag = "Some"

C14_Witness ==
    /\ call.op = "generate"
    /\ ret = Err("io::Error")
    /\ call.capacity = 2
    /\ call.generator_options.preamble.tag = "Some"
    /\ call.generator_options.namespace.tag = "Some"
    /\ Cardinality(DOMAIN call.types) = 2
    /\ out.written = <<DefaultPreamble \o "\n", "export namespace api {\n">>
    /\ out.attempts = 3

(***************************************************************************)
(* C16: in every output of a successful generate the preamble, when        *)
(* configured, is the first text written; a namespace opening line is      *)
(* written iff a namespace is configured and a closing line iff an opening *)
(* line was; every declaration block lies after the opening line and       *)
(* before the closing line; every key of the mapping is emitted as exactly *)
(* one block.                                                              *)
(***************************************************************************)
Openings(written) == {i \in 1..Len(written) : IsNamespaceOpening(written[i])}
Closings(written) == {i \in 1..Len(written) : IsNamespaceClosing(written[i])}

\* The mapping a finished call rendered.
RenderedMapping ==
    IF call.op = "generate" THEN call.types
    ELSE extract(call.source, call.extract_options).val

C16_OutputStructure ==
    Rendered =>
        LET written == out.written
            options == call.generator_options
        IN /\ options.preamble.tag = "Some" =>
                  /\ Len(written) >= 1
                  /\ written[1] = options.preamble.val \o "\n"
           /\ Cardinality(Openings(written))
                  = (IF options.namespace.tag = "Some" THEN 1 ELSE 0)
           /\ \A i \in Openings(written) :
                  written[i] = "export namespace " \o options.namespace.val \o " {\n"
           /\ Cardinality(Closings(written)) = Cardinality(Openings(written))
           /\ \A h \in 1..Len(written) :
                  IsHeader(written[h]) =>
                      /\ \A o \in Openings(written) : o < h
                      /\ \A c \in Closings(written) : BlockEnd(written, h) < c
           /\ \A name \in DOMAIN RenderedMapping :
                  Cardinality(HeadersOf(written, name)) = 1
           /\ Len(BlockNames(written)) = Cardinality(DOMAIN RenderedMapping)

C16_Witness ==
    /\ GenerateOk
    /\ call.generator_options.preamble.tag = "Some"
    /\ call.generator_options.namespace = Some("api")
    /\ DOMAIN call.types = {"Alpha", "Zeta"}
    /\ out.written[2] = "export namespace api {\n"
    /\ out.written[Len(out.written)] = " }\n"
    /\ Len(BlockNames(out.written)) = 2

(***************************************************************************)
(* C15: the enum value resolver (extract_variant_value, through            *)
(* enums::extract_enum) gives for every variant: String(s) for the string  *)
(* literal s, Number(n) for an integer literal n that fits i64,            *)
(* Identifier(x) with the name as written for a bare identifier x, and no  *)
(* value, not an error, without a discriminant or with a discriminant of   *)
(* any other shape; the variants are returned in declaration order.        *)
(***************************************************************************)
IsOverflowing(variant) ==
    /\ variant.discriminant.tag = "Some"
    /\ variant.discriminant.val.k = "LitInt"
    /\ ExceedsI64(variant.discriminant.val.text)

ResolvedAsClaimed(variant, value) ==
    IF variant.discriminant.tag = "None" THEN value = None
    ELSE LET expr == variant.discriminant.val
         IN CASE expr.k = "LitStr" -> value = Some(EnumString(expr.text))
              [] expr.k = "LitInt" -> value = Some(EnumNumber(StripZeros(expr.text)))
              [] expr.k = "Path" /\ Len(expr.segments) = 1 ->
                     value = Some(EnumIdentifier(expr.segments[1]))
              [] OTHER -> value = None

C15_EnumValues ==
    (call.op = "enums::extract_enum" /\ call.done) =>
        /\ ret.tag = "Err" <=>
               \E j \in 1..Len(call.item.variants) : IsOverflowing(call.item.variants[j])
        /\ ret.tag = "Ok" =>
               /\ ret.val.name = call.item.ident
               /\ Len(ret.val.variants) = Len(call.item.variants)
               /\ \A j \in 1..Len(call.item.variants) :
                      /\ ret.val.variants[j].name = call.item.variants[j].ident
                      /\ ResolvedAsClaimed(call.item.variants[j],
                                           ret.val.variants[j].value)

C15_Witness ==
    /\ call.op = "enums::extract_enum"
    /\ call.done
    /\ call.item.variants = <<WithExpr("Limit", ExprPath(<<"MAX">>)),
                              WithExpr("Seven", LitInt("007"))>>
    /\ ret.tag = "Ok"
    /\ ret.val.variants = <<[name |-> "Limit", value |-> Some(EnumIdentifier("MAX"))],
                            [name |-> "Seven", value |-> Some(EnumNumber("7"))]>>

=============================================================================
